---- MODULE Spec2Model ----
(***************************************************************************)
(* Ledger core of the stock trading simulator: the handlers of              *)
(* server/routes/portfolio.js running against the single shared sqlite     *)
(* connection `db`.  Every database statement of a handler is one step;    *)
(* the statements of different in-flight requests interleave.              *)
(*                                                                         *)
(* Numbers: prices are whole currency units and REAL columns are exact     *)
(* rationals [n, d] (d = 0 is SQL NULL), so rounding of IEEE doubles is    *)
(* not represented.                                                        *)
(*                                                                         *)
(* Connection: BEGIN, COMMIT and ROLLBACK are issued without a callback.   *)
(* One that fails (BEGIN inside an open transaction, COMMIT or ROLLBACK    *)
(* with none open) leaves the tables alone and the handler carries on.     *)
(* The statements themselves do not fail, except in SpecFail, where the    *)
(* UPDATE, the upsert and the INSERT of a trade can fail and the `if (err)`*)
(* branches of their callbacks are taken.                                  *)
(*                                                                         *)
(* The read handlers GET /summary and GET /transactions run against the    *)
(* same tables.  An account is a registered user: registration writes its  *)
(* user_balance row, and only registered users hold the token the          *)
(* portfolio routes ask for.  A transaction row's date is the second in    *)
(* which it was inserted.                                                  *)
(***************************************************************************)
EXTENDS Integers, Sequences, FiniteSets, TLC

\* ------------------------------------------------------------------ bounds
NumSlots == 2        \* requests that can be in flight together
MaxTrades == 2       \* trade requests submitted in one run of Spec
MaxSeqTrades == 3    \* trade requests submitted in one run of SpecSeq
MaxReadTrades == 2   \* trade requests submitted in one run of SpecRead
MaxClock == 1        \* seconds that pass in one run of SpecRead
MaxRows == 53        \* records in the log at the start of a run of SpecLog
MaxScenarioTrades == 3   \* trade requests submitted in one run of SpecScenario
MaxFailTrades == 2   \* trade requests submitted in one run of SpecFail
MaxCloses == 5       \* closing prices in the series given to an indicator
MaxPeriod == 3       \* the longest period given to an indicator

\* -------------------------------------------------------- program constants
initialBalance == 10000
TransactionsLimit == 50

\* ------------------------------------------------------------------ inputs
Accounts == {1, 2}
Symbols == {"AAA", "BBB"}
SymbolInputs == Symbols \cup {""}
Quantities == {-1, 0, 1, 2}
Types == {"buy", "sell", "hold"}
Prices == {3000, 4000}
Slots == 1..NumSlots

VARIABLES
    balance,        \* user_balance: user_id -> balance, for the rows there are
    portfolio,      \* portfolio: user_id -> symbol -> row
    transactions,   \* transactions table, in insertion (id) order
    inTxn,          \* the connection has an open transaction
    saved,          \* the tables as of the open transaction's BEGIN
    req,            \* per slot: the handler's closure variables and position
    pre,            \* per slot: the tables when the request was received
    ntrades,        \* requests received so far
    accepted,       \* the requests answered with success, in answer order
    users,          \* users: the registered user ids, each holding a token
    clock,          \* the database's CURRENT_TIMESTAMP, in seconds
    sum,            \* the GET /summary handler: position, locals, response
    txr,            \* the GET /transactions handler's response
    ind             \* the indicator functions: their arguments and results

vars == <<balance, portfolio, transactions, inTxn, saved, req, pre, ntrades,
          accepted, users, clock, sum, txr, ind>>

\* ------------------------------------------------------------ REAL values
NullReal == [n |-> 0, d |-> 0]

Abs(x) == IF x < 0 THEN -x ELSE x

RECURSIVE Gcd(_, _)
Gcd(a, b) == IF b = 0 THEN a ELSE Gcd(b, a % b)

\* the rational n/d in lowest terms with d > 0; NULL when d = 0
Real(n, d) ==
    IF d = 0 THEN NullReal
    ELSE LET g == Gcd(Abs(n), Abs(d))
             s == IF d < 0 THEN -1 ELSE 1
         IN  [n |-> s * (n \div g), d |-> s * (d \div g)]

IntReal(x) == [n |-> x, d |-> 1]

IsNull(x) == x.d = 0

\* the arithmetic of numbers that are not NULL
RealSum(x, y) == Real(x.n * y.d + y.n * x.d, x.d * y.d)
RealDifference(x, y) == Real(x.n * y.d - y.n * x.d, x.d * y.d)
RealProduct(x, y) == Real(x.n * y.n, x.d * y.d)
RealQuotient(x, y) == Real(x.n * y.d, x.d * y.n)

\* ------------------------------------------------------------------ tables
NoRow == [row |-> FALSE, quantity |-> 0, average_cost |-> NullReal]

Tables == [balance |-> balance, portfolio |-> portfolio,
           transactions |-> transactions]

IdleReq == [pc |-> "idle", user |-> 1, symbol |-> "", quantity |-> 0,
            hasQuantity |-> FALSE, type |-> "hold", currentPrice |-> 0,
            totalCost |-> 0, res |-> "none"]

IdleSum == [pc |-> "idle", user |-> 1, cash |-> 0, rows |-> <<>>,
            holdings |-> {}, failed |-> {}, totalValue |-> 0, profit |-> 0,
            res |-> "none"]

IdleTxr == [user |-> 1, rows |-> <<>>, res |-> "none"]

IdleInd == [data |-> <<>>, period |-> 1, sma |-> <<>>, smaRes |-> "none",
            rsi |-> <<>>, rsiRes |-> "none"]

Init ==
    /\ balance = [a \in Accounts |-> initialBalance]
    /\ portfolio = [a \in Accounts |-> [s \in Symbols |-> NoRow]]
    /\ transactions = <<>>
    /\ inTxn = FALSE
    /\ saved = Tables
    /\ req = [r \in Slots |-> IdleReq]
    /\ pre = [r \in Slots |-> Tables]
    /\ ntrades = 0
    /\ accepted = <<>>
    /\ users = Accounts
    /\ clock = 0
    /\ sum = IdleSum
    /\ txr = IdleTxr
    /\ ind = IdleInd

\* ------------------------------------------------- pieces of the handlers
\* line 96: !symbol || !quantity || !['buy','sell'].includes(type)
ValidParams(symbol, hasQuantity, quantity, type) ==
    /\ symbol # ""
    /\ hasQuantity /\ quantity # 0
    /\ type \in {"buy", "sell"}

\* a funds check that only refuses an overdrawn account
FundsOkIgnoresCost(bal, totalCost) == ~(bal < 0)

\* line 122: the buy goes on unless row.balance < totalCost
FundsOk(bal, totalCost) == ~(bal < totalCost)

\* a shares check that only looks for the row
SharesOkRowOnly(row, quantity) == row.row

\* line 164: the sell goes on unless !row || row.quantity < quantity
SharesOk(row, quantity) == row.row /\ ~(row.quantity < quantity)

\* a sell that debits the proceeds
SellBalanceDebits(bal, totalCost) == bal - totalCost

\* lines 128-130 and 170-172: UPDATE user_balance SET balance = balance -/+ ?
SellBalance(bal, totalCost) == bal + totalCost
BuyBalance(bal, totalCost) == bal - totalCost

\* an average of the old average cost and the new price, whatever the sizes
WeightedCostUnweighted(row, absq, price) ==
    IF IsNull(row.average_cost) THEN NullReal
    ELSE Real(row.average_cost.n + price * row.average_cost.d,
              2 * row.average_cost.d)

\* line 254: ((quantity * average_cost) + (? * ?)) / (quantity + ?)
WeightedCost(row, absq, price) ==
    IF IsNull(row.average_cost) THEN NullReal
    ELSE Real(row.quantity * row.average_cost.n + absq * price * row.average_cost.d,
              row.average_cost.d * (row.quantity + absq))

\* an upsert whose conflict branch overwrites the quantity
UpsertRowOverwrites(row, quantity, price) ==
    [row |-> TRUE, quantity |-> quantity,
     average_cost |-> IF ~row.row \/ quantity <= 0 THEN IntReal(price)
                      ELSE WeightedCost(row, Abs(quantity), price)]

\* lines 248-257: the upsert of updatePortfolio on the (user, symbol) row
UpsertRow(row, quantity, price) ==
    IF ~row.row
    THEN [row |-> TRUE, quantity |-> quantity, average_cost |-> IntReal(price)]
    ELSE [row |-> TRUE,
          quantity |-> row.quantity + quantity,
          average_cost |-> IF quantity > 0
                           THEN WeightedCost(row, Abs(quantity), price)
                           ELSE row.average_cost]

\* a sell that passes the quantity on without the sign
SignedQuantityUnsigned(type, quantity) == quantity

\* line 139 passes quantity, line 181 passes -quantity
SignedQuantity(type, quantity) == IF type = "buy" THEN quantity ELSE -quantity

\* a record with the quantity and the price in each other's column
TransactionRowSwapped(userId, symbol, quantity, price, type, date) ==
    [user_id |-> userId, symbol |-> symbol, quantity |-> price,
     price |-> quantity, type |-> type, date |-> date]

\* lines 280-282: the row recordTransaction inserts; its date column is the
\* schema's DEFAULT CURRENT_TIMESTAMP, its id the row's place in the table
TransactionRow(userId, symbol, quantity, price, type, date) ==
    [user_id |-> userId, symbol |-> symbol, quantity |-> quantity,
     price |-> price, type |-> type, date |-> date]

\* ---------------------------- the select-then-update updatePortfolio
\* null in JavaScript arithmetic counts as 0
JsNumber(x) == IF IsNull(x) THEN IntReal(0) ELSE x

\* the variant's error: a sell of a symbol that has no row
SelectThenUpdateFails(row, type) == ~row.row /\ type # "buy"

\* the row the variant leaves, called with the route's signed quantity
SelectThenUpdateRow(row, quantity, price, type) ==
    IF ~row.row
    THEN IF type = "buy"
         THEN [row |-> TRUE, quantity |-> quantity, average_cost |-> IntReal(price)]
         ELSE row
    ELSE LET newQuantity == row.quantity
                              + (IF type = "buy" THEN quantity ELSE -quantity)
             totalCost == RealSum(RealProduct(IntReal(row.quantity),
                                              JsNumber(row.average_cost)),
                                  IntReal(quantity * price))
         IN  [row |-> TRUE, quantity |-> newQuantity,
              average_cost |-> IF type = "buy" /\ newQuantity > 0
                               THEN RealQuotient(totalCost, IntReal(newQuantity))
                               ELSE row.average_cost]

\* the quantity the variant hands to recordTransaction
SelectThenUpdateRecorded(quantity) == quantity

\* ------------------------------------------------ the shared connection
InFlight(r) == req[r].pc \notin {"idle", "done"}

TablesUnchanged == UNCHANGED <<balance, portfolio, transactions>>

\* a statement that writes: outside a transaction it is committed at once
Written == saved' = IF inTxn THEN saved
                     ELSE [balance |-> balance', portfolio |-> portfolio',
                           transactions |-> transactions']

\* ------------------------------------------------------------- the handler
\* lines 92-98: the request arrives and is validated
Receive(r, u, s, hasq, q, t) ==
    /\ u \in users
    /\ req[r].pc \in {"idle", "done"}
    /\ ntrades' = ntrades + 1
    /\ pre' = [pre EXCEPT ![r] = Tables]
    /\ req' = [req EXCEPT ![r] =
                 [pc |-> IF ValidParams(s, hasq, q, t) THEN "quote" ELSE "done",
                  user |-> u, symbol |-> s,
                  quantity |-> IF hasq THEN q ELSE 0, hasQuantity |-> hasq,
                  type |-> t, currentPrice |-> 0, totalCost |-> 0,
                  res |-> IF ValidParams(s, hasq, q, t) THEN "none"
                          ELSE "Invalid trade parameters"]]
    /\ UNCHANGED <<balance, portfolio, transactions, inTxn, saved, accepted>>
    /\ UNCHANGED <<users, clock, ind>>

\* lines 101-106: the quote arrives; BEGIN and the check are queued
QuoteResolved(r, p) ==
    /\ req[r].pc = "quote"
    /\ req' = [req EXCEPT ![r].currentPrice = p,
                          ![r].totalCost = p * req[r].quantity,
                          ![r].pc = "begin"]
    /\ UNCHANGED <<balance, portfolio, transactions, inTxn, saved, pre, ntrades, accepted>>
    /\ UNCHANGED <<users, clock, ind, sum, txr>>

\* a handler that swallows the quote error and goes on to the database
QuoteFailedCarriesOn(r) ==
    /\ req[r].pc = "quote"
    /\ req' = [req EXCEPT ![r].pc = "begin"]
    /\ UNCHANGED <<balance, portfolio, transactions, inTxn, saved, pre, ntrades, accepted>>
    /\ UNCHANGED <<users, clock, ind, sum, txr>>

\* lines 197-200: the quote fetch throws
QuoteFailed(r) ==
    /\ req[r].pc = "quote"
    /\ req' = [req EXCEPT ![r].res = "Server error", ![r].pc = "done"]
    /\ UNCHANGED <<balance, portfolio, transactions, inTxn, saved, pre, ntrades, accepted>>
    /\ UNCHANGED <<users, clock, ind, sum, txr>>

\* line 106: BEGIN TRANSACTION; inside an open transaction it fails and the
\* error is dropped (no callback)
Begin(r) ==
    /\ req[r].pc = "begin"
    /\ inTxn' = TRUE
    /\ saved' = IF inTxn THEN saved ELSE Tables
    /\ req' = [req EXCEPT ![r].pc = "check"]
    /\ UNCHANGED <<balance, portfolio, transactions, pre, ntrades, accepted>>
    /\ UNCHANGED <<users, clock, ind, sum, txr>>

\* lines 110-125: SELECT balance and its callback
CheckFunds(r) ==
    /\ req[r].pc = "check" /\ req[r].type = "buy"
    /\ IF req[r].user \notin DOMAIN balance
       THEN req' = [req EXCEPT ![r].pc = "rollback",
                               ![r].res = "User balance not found"]
       ELSE IF FundsOk(balance[req[r].user], req[r].totalCost)
       THEN req' = [req EXCEPT ![r].pc = "update"]
       ELSE req' = [req EXCEPT ![r].pc = "rollback",
                               ![r].res = "Insufficient funds"]
    /\ UNCHANGED <<balance, portfolio, transactions, inTxn, saved, pre, ntrades, accepted>>
    /\ UNCHANGED <<users, clock, ind, sum, txr>>

\* lines 154-167: SELECT quantity and its callback
CheckShares(r) ==
    /\ req[r].pc = "check" /\ req[r].type = "sell"
    /\ IF SharesOk(portfolio[req[r].user][req[r].symbol], req[r].quantity)
       THEN req' = [req EXCEPT ![r].pc = "update"]
       ELSE req' = [req EXCEPT ![r].pc = "rollback",
                               ![r].res = "Insufficient shares"]
    /\ UNCHANGED <<balance, portfolio, transactions, inTxn, saved, pre, ntrades, accepted>>
    /\ UNCHANGED <<users, clock, ind, sum, txr>>

\* a ROLLBACK that closes the transaction and keeps what was written in it
RollbackKeepsWrites(r) ==
    /\ req[r].pc = "rollback"
    /\ TablesUnchanged
    /\ inTxn' = FALSE
    /\ saved' = Tables
    /\ req' = [req EXCEPT ![r].pc = "done"]
    /\ UNCHANGED <<pre, ntrades, accepted>>
    /\ UNCHANGED <<users, clock, ind, sum, txr>>

\* lines 123, 165: ROLLBACK; with no open transaction it fails, error dropped
Rollback(r) ==
    /\ req[r].pc = "rollback"
    /\ IF inTxn
       THEN /\ balance' = saved.balance
            /\ portfolio' = saved.portfolio
            /\ transactions' = saved.transactions
       ELSE TablesUnchanged
    /\ inTxn' = FALSE
    /\ UNCHANGED saved
    /\ req' = [req EXCEPT ![r].pc = "done"]
    /\ UNCHANGED <<pre, ntrades, accepted>>
    /\ UNCHANGED <<users, clock, ind, sum, txr>>

\* lines 128-130, 170-172: UPDATE user_balance
UpdateBalance(r) ==
    /\ req[r].pc = "update"
    /\ balance' = [a \in DOMAIN balance |->
                     IF a # req[r].user THEN balance[a]
                     ELSE IF req[r].type = "buy"
                     THEN BuyBalance(balance[a], req[r].totalCost)
                     ELSE SellBalance(balance[a], req[r].totalCost)]
    /\ UNCHANGED <<portfolio, transactions>>
    /\ Written
    /\ req' = [req EXCEPT ![r].pc = "upsert"]
    /\ UNCHANGED <<inTxn, pre, ntrades, accepted>>
    /\ UNCHANGED <<users, clock, ind, sum, txr>>

\* lines 246-257: updatePortfolio's statement
UpdatePortfolio(r) ==
    /\ req[r].pc = "upsert"
    /\ portfolio' = [portfolio EXCEPT ![req[r].user][req[r].symbol] =
                       UpsertRow(@, SignedQuantity(req[r].type, req[r].quantity),
                                 req[r].currentPrice)]
    /\ UNCHANGED <<balance, transactions>>
    /\ Written
    /\ req' = [req EXCEPT ![r].pc = "record"]
    /\ UNCHANGED <<inTxn, pre, ntrades, accepted>>
    /\ UNCHANGED <<users, clock, ind, sum, txr>>

\* lines 265, 271-292, then 146-147 / 188-189: the transaction row is
\* inserted; its callback queues COMMIT and answers success
RecordTransaction(r) ==
    /\ req[r].pc = "record"
    /\ transactions' = Append(transactions,
            TransactionRow(req[r].user, req[r].symbol,
                           Abs(SignedQuantity(req[r].type, req[r].quantity)),
                           req[r].currentPrice, req[r].type, clock))
    /\ UNCHANGED <<balance, portfolio>>
    /\ Written
    /\ req' = [req EXCEPT ![r].pc = "commit", ![r].res = "success"]
    /\ accepted' = Append(accepted,
            [user |-> req[r].user, symbol |-> req[r].symbol,
             quantity |-> req[r].quantity, price |-> req[r].currentPrice,
             type |-> req[r].type])
    /\ UNCHANGED <<inTxn, pre, ntrades>>
    /\ UNCHANGED <<users, clock, ind, sum, txr>>

\* lines 146, 188: COMMIT; with no open transaction it fails, error dropped
Commit(r) ==
    /\ req[r].pc = "commit"
    /\ inTxn' = FALSE
    /\ saved' = Tables
    /\ req' = [req EXCEPT ![r].pc = "done"]
    /\ UNCHANGED <<balance, portfolio, transactions, pre, ntrades, accepted>>
    /\ UNCHANGED <<users, clock, ind, sum, txr>>

\* a statement of the trade fails: it writes nothing, and its callback
\* queues ROLLBACK and answers 500 'Transaction failed'
StatementFailed(r, at) ==
    /\ req[r].pc = at
    /\ req' = [req EXCEPT ![r].pc = "rollback", ![r].res = "Transaction failed"]
    /\ UNCHANGED <<balance, portfolio, transactions, inTxn, saved, pre, ntrades, accepted>>
    /\ UNCHANGED <<users, clock, ind, sum, txr>>

\* lines 131-135, 173-177: the UPDATE of user_balance fails
UpdateBalanceFailed(r) == StatementFailed(r, "update")

\* lines 258-263, then 140-144, 182-186: the upsert of the position fails
UpdatePortfolioFailed(r) == StatementFailed(r, "upsert")

\* lines 281-286, then 140-144, 182-186: the INSERT of the record fails
RecordTransactionFailed(r) == StatementFailed(r, "record")

\* ------------------------------------------------------- the read handlers
\* a lookup that writes the initial balance whether or not the row is there
BalanceRowReset(bal, userId) ==
    [a \in DOMAIN bal \cup {userId} |->
        IF a = userId THEN initialBalance ELSE bal[a]]

\* lines 21-39: a missing user_balance row is inserted with the initial
\* balance; a row that is there is left alone
BalanceRowEnsured(bal, userId) ==
    IF userId \in DOMAIN bal THEN bal
    ELSE [a \in DOMAIN bal \cup {userId} |->
             IF a = userId THEN initialBalance ELSE bal[a]]

\* a holdings query that keeps the rows of quantity 0
HoldingRowsNotNegative(rows) ==
    {s \in DOMAIN rows : rows[s].row /\ rows[s].quantity >= 0}

\* lines 42-44: ... FROM portfolio WHERE user_id = ? AND quantity > 0
HoldingRows(rows) ==
    {s \in DOMAIN rows : rows[s].row /\ rows[s].quantity > 0}

\* a holding whose profit takes the average cost once, not per share
HoldingProfitPerPosition(symbol, row, currentPrice) ==
    LET value == currentPrice * row.quantity
        cost == IF IsNull(row.average_cost) THEN IntReal(0) ELSE row.average_cost
    IN  [symbol |-> symbol, quantity |-> row.quantity,
         averageCost |-> row.average_cost, currentPrice |-> currentPrice,
         totalValue |-> value,
         profit |-> Real(value * cost.d - cost.n, cost.d)]

\* lines 56-67: the holding pushed for a position whose quote arrived; in
\* value - (stock.average_cost * stock.quantity) a null average cost is 0
Holding(symbol, row, currentPrice) ==
    LET value == currentPrice * row.quantity
        cost == IF IsNull(row.average_cost) THEN IntReal(0)
                ELSE Real(row.average_cost.n * row.quantity, row.average_cost.d)
    IN  [symbol |-> symbol, quantity |-> row.quantity,
         averageCost |-> row.average_cost, currentPrice |-> currentPrice,
         totalValue |-> value,
         profit |-> Real(value * cost.d - cost.n, cost.d)]

\* lines 9-12: GET /summary arrives with a verified token
SummaryReceive(u) ==
    /\ u \in users
    /\ sum.pc \in {"idle", "done"}
    /\ sum' = [IdleSum EXCEPT !.pc = "balance", !.user = u]
    /\ UNCHANGED <<balance, portfolio, transactions, inTxn, saved, req, pre,
                   ntrades, accepted, users, clock, ind>>

\* lines 14-39: SELECT balance; a missing row is inserted
SummaryBalance ==
    /\ sum.pc = "balance"
    /\ balance' = BalanceRowEnsured(balance, sum.user)
    /\ UNCHANGED <<portfolio, transactions>>
    /\ Written
    /\ sum' = [sum EXCEPT !.cash = IF sum.user \in DOMAIN balance
                                   THEN balance[sum.user] ELSE initialBalance,
                          !.pc = "holdings"]
    /\ UNCHANGED <<inTxn, req, pre, ntrades, accepted, users, clock, ind, txr>>

\* lines 42-52: SELECT the holdings; totalValue starts at the cash
SummaryHoldings ==
    /\ sum.pc = "holdings"
    /\ sum' = [sum EXCEPT
                 !.rows = [s \in HoldingRows(portfolio[sum.user]) |->
                              portfolio[sum.user][s]],
                 !.totalValue = sum.cash,
                 !.pc = "quotes"]
    /\ UNCHANGED <<balance, portfolio, transactions, inTxn, saved, req, pre,
                   ntrades, accepted, users, clock, ind, txr>>

\* the rows still to be quoted, without s
RowsLeft(s) == [x \in (DOMAIN sum.rows) \ {s} |-> sum.rows[x]]

\* lines 55-69: the quote of the next holding arrives
SummaryQuoteResolved(s, p) ==
    /\ sum.pc = "quotes" /\ s \in DOMAIN sum.rows
    /\ sum' = [sum EXCEPT
                 !.holdings = @ \cup {Holding(s, sum.rows[s], p)},
                 !.totalValue = @ + Holding(s, sum.rows[s], p).totalValue,
                 !.rows = RowsLeft(s)]
    /\ UNCHANGED <<balance, portfolio, transactions, inTxn, saved, req, pre,
                   ntrades, accepted, users, clock, ind, txr>>

\* lines 70-73: the quote of the next holding throws; it is logged and skipped
SummaryQuoteFailed(s) ==
    /\ sum.pc = "quotes" /\ s \in DOMAIN sum.rows
    /\ sum' = [sum EXCEPT !.failed = @ \cup {s}, !.rows = RowsLeft(s)]
    /\ UNCHANGED <<balance, portfolio, transactions, inTxn, saved, req, pre,
                   ntrades, accepted, users, clock, ind, txr>>

\* lines 76-81: the response
SummaryRespond ==
    /\ sum.pc = "quotes" /\ DOMAIN sum.rows = {}
    /\ sum' = [sum EXCEPT !.profit = sum.totalValue - initialBalance,
                          !.res = "ok", !.pc = "done"]
    /\ UNCHANGED <<balance, portfolio, transactions, inTxn, saved, req, pre,
                   ntrades, accepted, users, clock, ind, txr>>

SummaryStep ==
    \/ SummaryBalance
    \/ SummaryHoldings
    \/ \E s \in Symbols, p \in Prices : SummaryQuoteResolved(s, p)
    \/ \E s \in Symbols : SummaryQuoteFailed(s)
    \/ SummaryRespond

\* line 217: WHERE user_id = ?  (a row's id is its place in the table)
MatchingIds(table, userId) ==
    {i \in 1..Len(table) : table[i].user_id = userId}

\* an ordering with the oldest date first
BeforeOldestFirst(table, tie, i, j) ==
    \/ table[i].date < table[j].date
    \/ table[i].date = table[j].date /\ IF tie = "asc" THEN i < j ELSE i > j

\* line 218: ORDER BY date DESC; the order of rows of one date is the
\* database's choice: tie says whether it is id ascending or descending
Before(table, tie, i, j) ==
    \/ table[i].date > table[j].date
    \/ table[i].date = table[j].date /\ IF tie = "asc" THEN i < j ELSE i > j

RECURSIVE OrderLimit(_, _, _, _)
\* lines 218-219: the first `limit` ids of `ids` in the order of Before
OrderLimit(table, tie, ids, limit) ==
    IF ids = {} \/ limit = 0 THEN <<>>
    ELSE LET first == CHOOSE i \in ids :
                         \A j \in ids \ {i} : Before(table, tie, i, j)
         IN  <<first>> \o OrderLimit(table, tie, ids \ {first}, limit - 1)

\* lines 228-235: the fields of a row that go into the response
SanitizedRow(id, row) ==
    [id |-> id, symbol |-> row.symbol, quantity |-> row.quantity,
     price |-> row.price, type |-> row.type, date |-> row.date]

\* lines 215-220: the query of GET /transactions
TransactionsQuery(table, userId, tie) ==
    LET ids == OrderLimit(table, tie, MatchingIds(table, userId),
                          TransactionsLimit)
    IN  [k \in 1..Len(ids) |-> SanitizedRow(ids[k], table[ids[k]])]

\* lines 204-243: GET /transactions with a verified token
TransactionsRead(u, tie) ==
    /\ u \in users
    /\ txr' = [user |-> u, rows |-> TransactionsQuery(transactions, u, tie),
               res |-> "ok"]
    /\ UNCHANGED <<balance, portfolio, transactions, inTxn, saved, req, pre,
                   ntrades, accepted, users, clock, ind>>

\* ------------------------------------------------- the indicator functions
\* arrays are 1-based here: index i of the source is index i + 1

RECURSIVE SumSeq(_)
\* reduce((a, b) => a + b, 0)
SumSeq(s) == IF s = <<>> THEN 0 ELSE s[1] + SumSeq(Tail(s))

\* Array(n).fill(null)
Nulls(n) == [k \in 1..n |-> NullReal]

\* a.slice(0, n)
Slice(a, n) == SubSeq(a, 1, IF n < Len(a) THEN n ELSE Len(a))

\* a moving average that divides by the window's last index
calculateSMAOffByOne(data, period) ==
    LET sma == [j \in 1..(IF Len(data) >= period
                          THEN Len(data) - period + 1 ELSE 0) |->
                   Real(SumSeq(SubSeq(data, j, j + period - 1)), j + period - 1)]
    IN  Nulls(period - 1) \o sma

\* calculateSMA: the means of the windows, behind period - 1 nulls
calculateSMA(data, period) ==
    LET sma == [j \in 1..(IF Len(data) >= period
                          THEN Len(data) - period + 1 ELSE 0) |->
                   Real(SumSeq(SubSeq(data, j, j + period - 1)), period)]
    IN  Nulls(period - 1) \o sma

\* lines 182-185: the price changes
Changes(data) ==
    [i \in 1..(IF Len(data) > 0 THEN Len(data) - 1 ELSE 0) |->
        data[i + 1] - data[i]]

Gain(change) == IF change > 0 THEN change ELSE 0
Loss(change) == IF change < 0 THEN -change ELSE 0

\* lines 188, 191: the first average gain, over changes.slice(0, period)
FirstAvgGain(changes, period) ==
    LET first == Slice(changes, period)
    IN  Real(SumSeq([i \in 1..Len(first) |-> Gain(first[i])]), period)

\* lines 189, 192: the first average loss, over changes.slice(0, period)
FirstAvgLoss(changes, period) ==
    LET first == Slice(changes, period)
    IN  Real(SumSeq([i \in 1..Len(first) |-> Loss(first[i])]), period)

\* an RSI that is 0 when there are no losses
RsiValueNoLossIsZero(avgGain, avgLoss) ==
    IF avgLoss.n = 0 THEN IntReal(0)
    ELSE RealDifference(IntReal(100),
            RealQuotient(IntReal(100),
                RealSum(IntReal(1), RealQuotient(avgGain, avgLoss))))

\* lines 197-202 and 214-219: 100 when avgLoss === 0, else 100 - 100/(1 + rs)
RsiValue(avgGain, avgLoss) ==
    IF avgLoss.n = 0 THEN IntReal(100)
    ELSE RealDifference(IntReal(100),
            RealQuotient(IntReal(100),
                RealSum(IntReal(1), RealQuotient(avgGain, avgLoss))))

\* a smoothing that does not weight the previous average
SmoothedUnweighted(avg, x, period) ==
    RealQuotient(RealSum(avg, IntReal(x)), IntReal(period))

\* lines 211-212: ((avg * (period - 1)) + x) / period
Smoothed(avg, x, period) ==
    RealQuotient(RealSum(RealProduct(avg, IntReal(period - 1)), IntReal(x)),
                 IntReal(period))

RECURSIVE RsiLoop(_, _, _, _, _, _)
\* lines 205-220: the loop from source index i, for i < data.length - 1
RsiLoop(changes, len, period, i, avgGain, avgLoss) ==
    IF ~(i < len - 1) THEN <<>>
    ELSE LET g == Smoothed(avgGain, Gain(changes[i + 1]), period)
             l == Smoothed(avgLoss, Loss(changes[i + 1]), period)
         IN  <<RsiValue(g, l)>> \o RsiLoop(changes, len, period, i + 1, g, l)

\* calculateRSI: its values, or the RangeError of Array(-1)
calculateRSI(data, period) ==
    LET changes == Changes(data)
        avgGain == FirstAvgGain(changes, period)
        avgLoss == FirstAvgLoss(changes, period)
        rsi == <<RsiValue(avgGain, avgLoss)>>
                  \o RsiLoop(changes, Len(data), period, period, avgGain, avgLoss)
    IN  IF Len(data) - Len(rsi) < 0
        THEN [res |-> "RangeError", values |-> <<>>]
        ELSE [res |-> "ok", values |-> Nulls(Len(data) - Len(rsi)) \o rsi]

\* calculateSMA is called
CallSMA ==
    /\ ind.smaRes = "none"
    /\ ind' = [ind EXCEPT !.sma = calculateSMA(ind.data, ind.period),
                          !.smaRes = "ok"]
    /\ UNCHANGED <<balance, portfolio, transactions, inTxn, saved, req, pre,
                   ntrades, accepted, users, clock, sum, txr>>

\* calculateRSI is called
CallRSI ==
    /\ ind.rsiRes = "none"
    /\ ind' = [ind EXCEPT !.rsi = calculateRSI(ind.data, ind.period).values,
                          !.rsiRes = calculateRSI(ind.data, ind.period).res]
    /\ UNCHANGED <<balance, portfolio, transactions, inTxn, saved, req, pre,
                   ntrades, accepted, users, clock, sum, txr>>

\* ------------------------------------------------------------ registration
\* POST /register: the users row and, unless there is one, the user_balance
\* row with the initial balance, committed together on the auth routes' own
\* connection (which cannot write while the trade connection's transaction
\* holds the database)
Register(a) ==
    /\ a \notin users
    /\ ~inTxn
    /\ users' = users \cup {a}
    /\ balance' = IF a \in DOMAIN balance THEN balance
                  ELSE [x \in DOMAIN balance \cup {a} |->
                           IF x = a THEN initialBalance ELSE balance[x]]
    /\ UNCHANGED <<portfolio, transactions>>
    /\ Written
    /\ UNCHANGED <<inTxn, req, pre, ntrades, accepted, clock, sum, txr, ind>>

\* a second passes
Tick ==
    /\ clock < MaxClock
    /\ clock' = clock + 1
    /\ UNCHANGED <<balance, portfolio, transactions, inTxn, saved, req, pre,
                   ntrades, accepted, users, ind>>

\* ----------------------------------------------------------- specifications
\* the steps of request r once its quote has been asked for
Proceed(r) ==
    \/ QuoteFailed(r)
    \/ Begin(r)
    \/ CheckFunds(r)
    \/ CheckShares(r)
    \/ Rollback(r)
    \/ UpdateBalance(r)
    \/ UpdatePortfolio(r)
    \/ RecordTransaction(r)
    \/ Commit(r)

Step(r) ==
    \/ \E p \in Prices : QuoteResolved(r, p)
    \/ Proceed(r)

\* requests arrive at any time
Arrive ==
    /\ ntrades < MaxTrades
    /\ \E r \in Slots, u \in Accounts, s \in SymbolInputs, hasq \in BOOLEAN,
          q \in Quantities, t \in Types :
          /\ \A r2 \in Slots : r2 < r => req[r2].pc # "idle"
          /\ Receive(r, u, s, hasq, q, t)
    /\ UNCHANGED <<sum, txr>>

Next == Arrive \/ \E r \in Slots : Step(r)

Spec == Init /\ [][Next]_vars

\* requests arrive one after another: the next one when the last is finished
\* (its COMMIT or ROLLBACK included); they are one account's requests
SeqAccounts == {1}

ArriveSeq ==
    /\ ntrades < MaxSeqTrades
    /\ \A r \in Slots : ~InFlight(r)
    /\ \E u \in SeqAccounts, s \in SymbolInputs, hasq \in BOOLEAN,
          q \in Quantities, t \in Types :
          Receive(1, u, s, hasq, q, t)
    /\ UNCHANGED <<sum, txr>>

NextSeq == ArriveSeq \/ Step(1)

SpecSeq == Init /\ [][NextSeq]_vars

\* registration, trades, summaries and transactions reads of one account,
\* one operation at a time, from the freshly initialised database; the
\* trade requests name a symbol and a side, and a quantity that may be 0.
\* The response of a read is kept until the next operation arrives or a
\* second passes.
OpsIdle == (\A r \in Slots : ~InFlight(r)) /\ sum.pc \in {"idle", "done"}

InitRead ==
    /\ balance = [a \in {} |-> initialBalance]
    /\ portfolio = [a \in Accounts |-> [s \in Symbols |-> NoRow]]
    /\ transactions = <<>>
    /\ inTxn = FALSE
    /\ saved = Tables
    /\ req = [r \in Slots |-> IdleReq]
    /\ pre = [r \in Slots |-> Tables]
    /\ ntrades = 0
    /\ accepted = <<>>
    /\ users = {}
    /\ clock = 0
    /\ sum = IdleSum
    /\ txr = IdleTxr
    /\ ind = IdleInd

ArriveRead ==
    /\ ntrades < MaxReadTrades
    /\ OpsIdle
    /\ \E u \in SeqAccounts, s \in Symbols, q \in Quantities,
          t \in {"buy", "sell"} :
          Receive(1, u, s, TRUE, q, t)
    /\ sum' = IdleSum
    /\ txr' = IdleTxr

NextRead ==
    \/ \E a \in SeqAccounts : OpsIdle /\ Register(a)
    \/ ArriveRead
    \/ Step(1)
    \/ \E u \in SeqAccounts : OpsIdle /\ SummaryReceive(u) /\ txr' = IdleTxr
    \/ SummaryStep
    \/ \E u \in SeqAccounts, tie \in {"asc", "desc"} :
          OpsIdle /\ TransactionsRead(u, tie) /\ sum' = IdleSum
    \/ OpsIdle /\ Tick /\ sum' = IdleSum /\ txr' = IdleTxr

SpecRead == InitRead /\ [][NextRead]_vars

\* transactions reads against a log left by earlier trades: the accounts
\* took turns (UserPatterns) buying one AAA at 3000 and selling it again, at
\* a pace of one, two or all trades a second (DatePatterns)
UserPatterns == {"one", "alternate", "late"}
DatePatterns == {"distinct", "pairs", "same"}

LogUser(up, i) ==
    IF up = "one" THEN 1
    ELSE IF up = "alternate" THEN (IF i % 2 = 1 THEN 1 ELSE 2)
    ELSE (IF i <= 2 THEN 2 ELSE 1)

LogDate(dp, i) ==
    IF dp = "distinct" THEN i ELSE IF dp = "pairs" THEN i \div 2 ELSE 0

\* how many of the first i trades are those of account a
TradesOf(up, a, i) == Cardinality({j \in 1..i : LogUser(up, j) = a})

LogType(up, i) ==
    IF TradesOf(up, LogUser(up, i), i) % 2 = 1 THEN "buy" ELSE "sell"

LogTable(n, up, dp) ==
    [i \in 1..n |-> TransactionRow(LogUser(up, i), "AAA", 1, 3000,
                                   LogType(up, i), LogDate(dp, i))]

InitLog ==
    \E n \in 0..MaxRows, up \in UserPatterns, dp \in DatePatterns :
        /\ balance = [a \in Accounts |->
                         initialBalance - 3000 * (TradesOf(up, a, n) % 2)]
        /\ portfolio = [a \in Accounts |-> [s \in Symbols |->
                         IF s # "AAA" \/ TradesOf(up, a, n) = 0 THEN NoRow
                         ELSE [row |-> TRUE, quantity |-> TradesOf(up, a, n) % 2,
                               average_cost |-> IntReal(3000)]]]
        /\ transactions = LogTable(n, up, dp)
        /\ inTxn = FALSE
        /\ saved = Tables
        /\ req = [r \in Slots |-> IdleReq]
        /\ pre = [r \in Slots |-> Tables]
        /\ ntrades = n
        /\ accepted = [i \in 1..n |->
                         [user |-> LogUser(up, i), symbol |-> "AAA",
                          quantity |-> 1, price |-> 3000,
                          type |-> LogType(up, i)]]
        /\ users = Accounts
        /\ clock = LogDate(dp, n)
        /\ sum = IdleSum
        /\ txr = IdleTxr
        /\ ind = IdleInd
    /\ ind = IdleInd

NextLog ==
    \E u \in Accounts, tie \in {"asc", "desc"} :
        TransactionsRead(u, tie) /\ UNCHANGED sum

SpecLog == InitLog /\ [][NextLog]_vars

\* one account's requests for one symbol, one after another, with the
\* quantities and the quotes of the worked example
ScenarioQuantities == {5, 8, 10}
ScenarioPrices == {100, 120, 150}

ArriveScenario ==
    /\ ntrades < MaxScenarioTrades
    /\ \A r \in Slots : ~InFlight(r)
    /\ \E q \in ScenarioQuantities, t \in {"buy", "sell"} :
          Receive(1, 1, "AAA", TRUE, q, t)
    /\ UNCHANGED <<sum, txr>>

NextScenario ==
    \/ ArriveScenario
    \/ \E p \in ScenarioPrices : QuoteResolved(1, p)
    \/ Proceed(1)

SpecScenario == Init /\ [][NextScenario]_vars

\* one account's requests one after another, with statements that can fail
ArriveFail ==
    /\ ntrades < MaxFailTrades
    /\ \A r \in Slots : ~InFlight(r)
    /\ \E u \in SeqAccounts, s \in Symbols, q \in Quantities,
          t \in {"buy", "sell"} :
          Receive(1, u, s, TRUE, q, t)
    /\ UNCHANGED <<sum, txr>>

NextFail ==
    \/ ArriveFail
    \/ Step(1)
    \/ UpdateBalanceFailed(1)
    \/ UpdatePortfolioFailed(1)
    \/ RecordTransactionFailed(1)

SpecFail == Init /\ [][NextFail]_vars

\* the indicator functions on every series of up to MaxCloses prices from
\* CloseValues, and on the series 10..50, with every period up to MaxPeriod
CloseValues == {10, 20, 30}

CloseInputs ==
    UNION {[1..n -> CloseValues] : n \in 0..MaxCloses}
        \cup {<<10, 20, 30, 40, 50>>}

InitIndicators ==
    /\ balance = [a \in Accounts |-> initialBalance]
    /\ portfolio = [a \in Accounts |-> [s \in Symbols |-> NoRow]]
    /\ transactions = <<>>
    /\ inTxn = FALSE
    /\ saved = Tables
    /\ req = [r \in Slots |-> IdleReq]
    /\ pre = [r \in Slots |-> Tables]
    /\ ntrades = 0
    /\ accepted = <<>>
    /\ users = Accounts
    /\ clock = 0
    /\ sum = IdleSum
    /\ txr = IdleTxr
    /\ \E data \in CloseInputs, period \in 1..MaxPeriod :
          ind = [IdleInd EXCEPT !.data = data, !.period = period]

NextIndicators == CallSMA \/ CallRSI

SpecIndicators == InitIndicators /\ [][NextIndicators]_vars

\* ------------------------------------------------------------------ claims
Competing(r1, r2) ==
    /\ r1 # r2
    /\ req[r1].type = "buy" /\ req[r2].type = "buy"
    /\ req[r1].user = req[r2].user
    /\ req[r1].currentPrice \in Prices /\ req[r2].currentPrice \in Prices
    /\ pre[r1].balance[req[r1].user] = pre[r2].balance[req[r2].user]
    /\ req[r1].totalCost <= pre[r1].balance[req[r1].user]
    /\ req[r2].totalCost <= pre[r1].balance[req[r1].user]
    /\ req[r1].totalCost + req[r2].totalCost > pre[r1].balance[req[r1].user]

\* C1: of two buys of one account that arrive against the same cash, each
\* affordable alone and not both together, exactly one is answered success
\* and the other 'Insufficient funds'.
C1_ExactlyOneBuySucceeds ==
    \A r1, r2 \in Slots :
        (Competing(r1, r2) /\ req[r1].pc = "done" /\ req[r2].pc = "done")
        => \/ req[r1].res = "success" /\ req[r2].res = "Insufficient funds"
           \/ req[r2].res = "success" /\ req[r1].res = "Insufficient funds"

Quiescent == \A r \in Slots : ~InFlight(r)

\* C2: when no request is in flight every account's cash is >= 0.
C2_CashNeverNegative ==
    Quiescent => \A a \in Accounts : balance[a] >= 0

\* C3: when no request is in flight every stored position quantity is >= 0.
C3_QuantityNeverNegative ==
    Quiescent => \A a \in Accounts, s \in Symbols : portfolio[a][s].quantity >= 0

RECURSIVE CashFlow(_, _)
\* the sells' price*quantity minus the buys' price*quantity of account a
CashFlow(log, a) ==
    IF log = <<>> THEN 0
    ELSE LET e == log[Len(log)]
             rest == CashFlow(SubSeq(log, 1, Len(log) - 1), a)
         IN  IF e.user # a THEN rest
             ELSE IF e.type = "buy" THEN rest - e.price * e.quantity
             ELSE rest + e.price * e.quantity

\* C4: with the requests run one after another, the cash is the initial
\* balance minus the accepted buys' price*quantity plus the accepted sells'.
C4_CashIsInitialPlusFlow ==
    Quiescent => \A a \in Accounts :
        balance[a] = initialBalance + CashFlow(accepted, a)

C4_Witness ==
    /\ Quiescent
    /\ \E i, j \in 1..Len(accepted) :
          accepted[i].type = "buy" /\ accepted[j].type = "sell"
          /\ accepted[i].quantity > 0 /\ accepted[j].quantity > 0

Checked(r) == req[r].pc \in {"rollback", "update", "upsert", "record", "commit", "done"}
             /\ req[r].currentPrice \in Prices

\* C5: a buy that costs more than the cash is answered 'Insufficient funds'
\* and the tables are as they were when it arrived.
C5_UnaffordableBuyRejected ==
    (/\ Checked(1) /\ req[1].type = "buy"
     /\ req[1].totalCost > pre[1].balance[req[1].user])
    => req[1].res = "Insufficient funds" /\ Tables = pre[1]

C5_Witness ==
    /\ req[1].pc = "done" /\ req[1].type = "buy"
    /\ req[1].totalCost > pre[1].balance[req[1].user]
    /\ req[1].res = "Insufficient funds"
    /\ transactions # <<>>

\* C6: a sell of a symbol without a position row, or of more than is held,
\* is answered 'Insufficient shares' and the tables are as they were.
C6_UncoveredSellRejected ==
    (/\ Checked(1) /\ req[1].type = "sell"
     /\ \/ ~pre[1].portfolio[req[1].user][req[1].symbol].row
        \/ req[1].quantity > pre[1].portfolio[req[1].user][req[1].symbol].quantity)
    => req[1].res = "Insufficient shares" /\ Tables = pre[1]

C6_Witness ==
    /\ req[1].pc = "done" /\ req[1].type = "sell"
    /\ req[1].res = "Insufficient shares"
    /\ pre[1].portfolio[req[1].user][req[1].symbol].row
    /\ req[1].quantity > pre[1].portfolio[req[1].user][req[1].symbol].quantity
    /\ pre[1].portfolio[req[1].user][req[1].symbol].quantity > 0

\* C7: a request whose quantity is missing, zero or negative, or whose side
\* is neither buy nor sell, is answered 'Invalid trade parameters' at once
\* and the tables are as they were.
C7_InvalidInputRejected ==
    \A r \in Slots :
        (/\ req[r].pc # "idle"
         /\ \/ ~req[r].hasQuantity
            \/ req[r].quantity <= 0
            \/ req[r].type \notin {"buy", "sell"})
        => /\ req[r].pc = "done"
           /\ req[r].res = "Invalid trade parameters"

OthersUnchanged(r) ==
    \A s \in Symbols \ {req[r].symbol} :
        portfolio[req[r].user][s] = pre[r].portfolio[req[r].user][s]

\* C8: a buy that costs no more than the cash (equality included) is
\* answered success; the cash is down by price*quantity, the symbol's
\* quantity up by the quantity, the other symbols' positions are untouched.
C8_AffordableBuyApplied ==
    (/\ req[1].pc = "done" /\ req[1].type = "buy"
     /\ req[1].currentPrice \in Prices
     /\ req[1].totalCost <= pre[1].balance[req[1].user])
    => /\ req[1].res = "success"
       /\ balance[req[1].user] = pre[1].balance[req[1].user]
                                 - req[1].currentPrice * req[1].quantity
       /\ portfolio[req[1].user][req[1].symbol].row
       /\ portfolio[req[1].user][req[1].symbol].quantity =
             pre[1].portfolio[req[1].user][req[1].symbol].quantity + req[1].quantity
       /\ OthersUnchanged(1)

C8_Witness ==
    /\ req[1].pc = "done" /\ req[1].type = "buy" /\ req[1].res = "success"
    /\ req[1].totalCost = pre[1].balance[req[1].user]
    /\ pre[1].portfolio[req[1].user][req[1].symbol].quantity > 0
    /\ balance[req[1].user] = 0

\* C9: a sell of no more than is held (equality included) is answered
\* success; the cash is up by price*quantity, the symbol's quantity down by
\* the quantity, the other symbols' positions are untouched.
C9_CoveredSellApplied ==
    (/\ req[1].pc = "done" /\ req[1].type = "sell"
     /\ req[1].currentPrice \in Prices
     /\ pre[1].portfolio[req[1].user][req[1].symbol].row
     /\ req[1].quantity <= pre[1].portfolio[req[1].user][req[1].symbol].quantity)
    => /\ req[1].res = "success"
       /\ balance[req[1].user] = pre[1].balance[req[1].user]
                                 + req[1].currentPrice * req[1].quantity
       /\ portfolio[req[1].user][req[1].symbol].quantity =
             pre[1].portfolio[req[1].user][req[1].symbol].quantity - req[1].quantity
       /\ OthersUnchanged(1)

C9_Witness ==
    /\ req[1].pc = "done" /\ req[1].type = "sell" /\ req[1].res = "success"
    /\ req[1].quantity = 2
    /\ pre[1].portfolio[req[1].user][req[1].symbol].quantity = 2
    /\ portfolio[req[1].user][req[1].symbol].row
    /\ portfolio[req[1].user][req[1].symbol].quantity = 0

RECURSIVE BuyRun(_, _, _)
\* over the accepted requests of (a, s): the quantity held, the price*quantity
\* of the buys since the quantity was last 0, and whether only buys came since
BuyRun(log, a, s) ==
    IF log = <<>> THEN [quantity |-> 0, cost |-> 0, buys |-> 0, run |-> TRUE]
    ELSE LET e == log[Len(log)]
             b == BuyRun(SubSeq(log, 1, Len(log) - 1), a, s)
         IN  IF e.user # a \/ e.symbol # s THEN b
             ELSE IF e.type = "buy"
             THEN [quantity |-> b.quantity + e.quantity,
                   cost |-> b.cost + e.price * e.quantity,
                   buys |-> b.buys + 1, run |-> b.run]
             ELSE [quantity |-> b.quantity - e.quantity, cost |-> 0,
                   buys |-> 0, run |-> (b.quantity - e.quantity = 0)]

\* C10: after N >= 1 accepted buys of a symbol in a row, from no position or
\* from quantity 0, average cost * quantity is the buys' price*quantity.
C10_AverageCostIsWeighted ==
    Quiescent => \A a \in Accounts, s \in Symbols :
        LET b == BuyRun(accepted, a, s)
            row == portfolio[a][s]
        IN  (b.run /\ b.buys >= 1)
            => /\ row.row /\ ~IsNull(row.average_cost)
               /\ row.average_cost.n * row.quantity = b.cost * row.average_cost.d

\* C11: an accepted sell leaves the sold position's average cost as it was
\* when the sell arrived, a sell down to quantity 0 included.
C11_SellKeepsAverageCost ==
    (/\ req[1].pc = "done" /\ req[1].type = "sell" /\ req[1].res = "success")
    => portfolio[req[1].user][req[1].symbol].average_cost =
          pre[1].portfolio[req[1].user][req[1].symbol].average_cost

Answered(r, results) == req[r].res \notin results /\ req'[r].res \in results

\* the record a successful request r is to leave in the log
ExpectedRecord(r) ==
    [user_id |-> req[r].user, symbol |-> req[r].symbol,
     quantity |-> IF req[r].quantity < 0 THEN -req[r].quantity ELSE req[r].quantity,
     price |-> req[r].currentPrice, type |-> req[r].type, date |-> clock]

\* C12: the step that answers a request with success appends one record to
\* the log, with the request's account, symbol, price and side and its
\* quantity as a positive number; no other step makes the log longer, so a
\* request answered with a rejection or an error appends none.
C12_OneRecordPerAcceptedTrade ==
    [][/\ \A r \in Slots :
             Answered(r, {"success"})
             => /\ transactions' = Append(transactions, ExpectedRecord(r))
                /\ ExpectedRecord(r).quantity > 0
       /\ Len(transactions') > Len(transactions)
          => \E r \in Slots : Answered(r, {"success"})
       /\ \A r \in Slots :
             Answered(r, {"Invalid trade parameters", "Server error",
                          "Insufficient funds", "Insufficient shares",
                          "User balance not found"})
             => Len(transactions') <= Len(transactions)]_vars

C12_Witness ==
    /\ req[1].pc = "commit" /\ req[1].res = "success"
    /\ req[1].type = "sell" /\ req[1].quantity = 2
    /\ ntrades = 3 /\ Len(transactions) = 2
    /\ transactions[2] = ExpectedRecord(1)

\* C13: a request whose quote fetch fails goes from waiting for the quote
\* straight to its end with 'Server error'; that step starts no transaction
\* and leaves the cash, the positions and the log as they are.
C13_QuoteFailureChangesNothing ==
    [][\A r \in Slots :
          (/\ req[r].pc = "quote" /\ req'[r].pc # "quote"
           /\ req'[r].currentPrice \notin Prices)
          => /\ req'[r].pc = "done" /\ req'[r].res = "Server error"
             /\ UNCHANGED <<balance, portfolio, transactions, inTxn, saved>>]_vars

C13_Witness ==
    \E r \in Slots :
        /\ req[r].pc = "done" /\ req[r].res = "Server error"
        /\ req[r].type = "buy" /\ req[r].quantity > 0
        /\ transactions # <<>>

\* C14: a record that is in the log stays in it, with its fields, whatever
\* step of whatever request comes next.
C14_LogIsAppendOnly ==
    [][/\ Len(transactions') >= Len(transactions)
       /\ \A i \in 1..Len(transactions) : transactions'[i] = transactions[i]]_vars

\* the ids of the records of the account the transactions read was for
Mine == {i \in 1..Len(transactions) : transactions[i].user_id = txr.user}

\* C15: a transactions read returns only records of its account, each once
\* and as stored, at most 50 of them and all of them when there are no more
\* than 50, in descending order of timestamp, and no record left out is
\* more recent than a returned one.
C15_TransactionsRead ==
    txr.res = "ok"
    => /\ \A k \in 1..Len(txr.rows) :
             /\ txr.rows[k].id \in Mine
             /\ txr.rows[k] =
                   [id |-> txr.rows[k].id,
                    symbol |-> transactions[txr.rows[k].id].symbol,
                    quantity |-> transactions[txr.rows[k].id].quantity,
                    price |-> transactions[txr.rows[k].id].price,
                    type |-> transactions[txr.rows[k].id].type,
                    date |-> transactions[txr.rows[k].id].date]
       /\ \A k, l \in 1..Len(txr.rows) :
             k < l => /\ txr.rows[k].id # txr.rows[l].id
                      /\ txr.rows[k].date >= txr.rows[l].date
       /\ Len(txr.rows) <= 50
       /\ Len(txr.rows) = (IF Cardinality(Mine) > 50 THEN 50 ELSE Cardinality(Mine))
       /\ \A i \in Mine :
             (\A k \in 1..Len(txr.rows) : txr.rows[k].id # i)
             => \A k \in 1..Len(txr.rows) :
                   txr.rows[k].date >= transactions[i].date

C15_Witness ==
    /\ txr.res = "ok"
    /\ Cardinality(Mine) > 50
    /\ Len(txr.rows) = 50
    /\ txr.rows[1].date > txr.rows[50].date
    /\ txr.rows[49].date = txr.rows[50].date
    /\ Cardinality(Mine) < Len(transactions)

\* the stored position of the summary's account
Stored(symbol) == portfolio[sum.user][symbol]

\* C16: a summary that has answered lists no holding whose stored quantity
\* is 0, so a position sold down to 0 is not listed until it is bought again.
C16_NoZeroQuantityHolding ==
    sum.res = "ok"
    => \A h \in sum.holdings :
          Stored(h.symbol).row /\ Stored(h.symbol).quantity # 0

C16_Witness ==
    /\ sum.res = "ok"
    /\ \E s \in Symbols :
          /\ Stored(s).row /\ Stored(s).quantity = 0
          /\ \E i \in 1..Len(accepted) :
                /\ accepted[i].symbol = s /\ accepted[i].type = "sell"
                /\ accepted[i].quantity > 0

RECURSIVE SumOfValues(_)
\* the sum of currentPrice * quantity over a set of holdings
SumOfValues(hs) ==
    IF hs = {} THEN 0
    ELSE LET h == CHOOSE x \in hs : TRUE
         IN  h.currentPrice * h.quantity + SumOfValues(hs \ {h})

C18_SummaryArithmetic ==
    sum.res = "ok"
    => /\ \A h \in sum.holdings :
             LET row == Stored(h.symbol)
                 value == h.currentPrice * row.quantity
             IN  /\ h.quantity = row.quantity
                 /\ h.averageCost = row.average_cost
                 /\ h.totalValue = value
                 /\ h.profit.d # 0
                 /\ IF IsNull(row.average_cost)
                    THEN h.profit.n = value * h.profit.d
                    ELSE h.profit.n * row.average_cost.d =
                            (value * row.average_cost.d
                               - row.average_cost.n * row.quantity) * h.profit.d
       /\ sum.cash = balance[sum.user]
       /\ sum.profit = sum.cash + SumOfValues(sum.holdings) - 10000

C18_Witness ==
    /\ sum.res = "ok"
    /\ \E h \in sum.holdings :
          /\ h.quantity = 2
          /\ h.profit # IntReal(0)
          /\ h.averageCost # IntReal(h.currentPrice)
    /\ sum.profit # 0

Scenario ==
    << [user |-> 1, symbol |-> "AAA", quantity |-> 10, price |-> 100, type |-> "buy"],
       [user |-> 1, symbol |-> "AAA", quantity |-> 5, price |-> 120, type |-> "buy"],
       [user |-> 1, symbol |-> "AAA", quantity |-> 8, price |-> 150, type |-> "sell"] >>

ScenarioResult ==
    << [cash |-> 9000, quantity |-> 10, num |-> 100, den |-> 1],
       [cash |-> 8400, quantity |-> 15, num |-> 1600, den |-> 15],
       [cash |-> 9600, quantity |-> 7, num |-> 1600, den |-> 15] >>

\* the request in slot 1 is the k-th of the example and the ones before it
\* were the example's, all accepted
ScenarioRequest(k) ==
    /\ ntrades = k /\ Len(accepted) >= k - 1
    /\ SubSeq(accepted, 1, k - 1) = SubSeq(Scenario, 1, k - 1)
    /\ req[1].user = Scenario[k].user /\ req[1].symbol = Scenario[k].symbol
    /\ req[1].quantity = Scenario[k].quantity /\ req[1].type = Scenario[k].type
    /\ req[1].currentPrice = Scenario[k].price

\* C20: from cash 10000 and no position, buy 10 at 100, buy 5 at 120 and
\* sell 8 at 150 are each accepted and leave cash 9000, 8400, 9600,
\* quantity 10, 15, 7 and average cost 100, 1600/15, 1600/15.
C20_Scenario ==
    \A k \in 1..3 :
        (req[1].pc = "done" /\ ScenarioRequest(k))
        => /\ req[1].res = "success"
           /\ accepted = SubSeq(Scenario, 1, k)
           /\ balance[1] = ScenarioResult[k].cash
           /\ portfolio[1]["AAA"].row
           /\ portfolio[1]["AAA"].quantity = ScenarioResult[k].quantity
           /\ portfolio[1]["AAA"].average_cost.d # 0
           /\ portfolio[1]["AAA"].average_cost.n * ScenarioResult[k].den =
                 ScenarioResult[k].num * portfolio[1]["AAA"].average_cost.d

C20_Witness ==
    /\ req[1].pc = "done" /\ ScenarioRequest(3)
    /\ accepted = Scenario

\* index i of the source's arrays
At(a, i) == a[i + 1]

RECURSIVE SumBetween(_, _, _)
\* closes[lo] + ... + closes[hi], by the source's indices
SumBetween(closes, lo, hi) ==
    IF lo > hi THEN 0 ELSE At(closes, hi) + SumBetween(closes, lo, hi - 1)

\* C21: calculateSMA returns null at every index below period - 1 and, at
\* every index i with period - 1 <= i < length, the arithmetic mean of
\* closes[i - period + 1 .. i]; calculateSMA([10,20,30,40,50], 3) is
\* [null, null, 20, 30, 40].
C21_SmaValues ==
    ind.smaRes = "ok" =>
        /\ \A i \in 0..(Len(ind.sma) - 1) :
              i < ind.period - 1 => IsNull(At(ind.sma, i))
        /\ \A i \in 0..(Len(ind.data) - 1) :
              i >= ind.period - 1 =>
                  /\ i < Len(ind.sma)
                  /\ At(ind.sma, i) =
                        Real(SumBetween(ind.data, i - ind.period + 1, i),
                             ind.period)
        /\ (ind.data = <<10, 20, 30, 40, 50>> /\ ind.period = 3) =>
              ind.sma = <<NullReal, NullReal,
                          IntReal(20), IntReal(30), IntReal(40)>>

C21_Witness ==
    /\ ind.smaRes = "ok"
    /\ ind.data = <<10, 20, 30, 40, 50>>
    /\ ind.period = 3
    /\ Len(ind.sma) = 5

\* C22: the output of calculateSMA has exactly the length of its input, the
\* empty input and every input shorter than the period included, and is all
\* null when the input is too short to fill one window.
C22_SmaLengthIsInputLength ==
    ind.smaRes = "ok" =>
        /\ Len(ind.sma) = Len(ind.data)
        /\ Len(ind.data) < ind.period =>
              \A k \in 1..Len(ind.sma) : IsNull(ind.sma[k])

\* C23: calculateRSI returns, without raising an error, a sequence of the
\* input's length in which every index below period is null, so that the
\* first value that is not null, if any, is at index period.
C23_RsiShape ==
    ind.rsiRes # "none" =>
        /\ ind.rsiRes = "ok"
        /\ Len(ind.rsi) = Len(ind.data)
        /\ \A i \in 0..(Len(ind.rsi) - 1) :
              i < ind.period => IsNull(At(ind.rsi, i))

StrictlyIncreasing(closes) ==
    \A i \in 1..(Len(closes) - 1) : closes[i] < closes[i + 1]

StrictlyDecreasing(closes) ==
    \A i \in 1..(Len(closes) - 1) : closes[i] > closes[i + 1]

\* C24: on a strictly increasing series longer than the period every
\* calculateRSI value that is not null is 100, on a strictly decreasing one
\* it is 0, and in all cases it lies in the range 0 to 100.
C24_RsiRange ==
    ind.rsiRes = "ok" =>
        \A k \in 1..Len(ind.rsi) :
            ~IsNull(ind.rsi[k]) =>
                /\ ind.rsi[k].d > 0
                /\ 0 <= ind.rsi[k].n
                /\ ind.rsi[k].n <= 100 * ind.rsi[k].d
                /\ (Len(ind.data) > ind.period /\ StrictlyIncreasing(ind.data))
                      => ind.rsi[k] = IntReal(100)
                /\ (Len(ind.data) > ind.period /\ StrictlyDecreasing(ind.data))
                      => ind.rsi[k] = IntReal(0)

C24_Witness ==
    /\ ind.rsiRes = "ok"
    /\ ind.period = 2
    /\ ind.data = <<10, 20, 30, 40, 50>>
    /\ ind.rsi = <<NullReal, NullReal, IntReal(100), IntReal(100), IntReal(100)>>

RECURSIVE Average(_, _, _, _)
\* the average of the gains (sign = 1) or of the losses (sign = -1) that
\* belongs to index k >= period
Average(closes, period, k, sign) ==
    LET part(j) ==
            LET d == sign * (At(closes, j) - At(closes, j - 1))
            IN  IF d > 0 THEN d ELSE 0
        RECURSIVE Seed(_)
        Seed(j) == IF j = 0 THEN 0 ELSE part(j) + Seed(j - 1)
    IN  IF k = period
        THEN Real(Seed(period), period)
        ELSE LET prev == Average(closes, period, k - 1, sign)
             IN  Real(prev.n * (period - 1) + part(k) * prev.d,
                      prev.d * period)

\* C25: on a series longer than the period the value at index period comes
\* from the averages of the gains and of the losses among the first period
\* differences, and the value at each later index k from the averages
\* smoothed as (avg * (period - 1) + x) / period with the difference
\* closes[k] - closes[k-1]; a value is 100 when avgLoss is 0 and
\* 100 - 100 / (1 + avgGain / avgLoss) otherwise.
C25_RsiSmoothing ==
    (ind.rsiRes = "ok" /\ Len(ind.data) > ind.period) =>
        \A k \in ind.period..(Len(ind.data) - 1) :
            LET g == Average(ind.data, ind.period, k, 1)
                l == Average(ind.data, ind.period, k, -1)
            IN  At(ind.rsi, k) =
                    IF l.n = 0 THEN IntReal(100)
                    ELSE Real(100 * g.n * l.d, g.n * l.d + l.n * g.d)

C25_Witness ==
    /\ ind.rsiRes = "ok"
    /\ ind.period = 2
    /\ ind.data = <<10, 30, 20, 30, 10>>
    /\ \A k \in 3..5 : ind.rsi[k] \notin {NullReal, IntReal(0), IntReal(100)}
    /\ ind.rsi[4] # ind.rsi[5]

\* C26: when the balance update, the position update or the transaction
\* insert fails after the check has passed, the request ends with an error
\* and cash, positions and transaction log are as before the request.
C26_FailedStepLeavesNothing ==
    \A r \in Slots :
        req[r].res = "Transaction failed" =>
            /\ req[r].pc \in {"rollback", "done"}
            /\ req[r].pc = "done" =>
                  /\ Tables = pre[r]
                  /\ saved = pre[r]
                  /\ ~inTxn
                  /\ Len(accepted) = Len(transactions)

C26_Witness ==
    /\ req[1].pc = "done"
    /\ req[1].res = "Transaction failed"
    /\ req[1].type = "sell"
    /\ ntrades = 2
    /\ Len(transactions) = 1
    /\ balance[1] = initialBalance - 2 * 3000
    /\ portfolio[1]["AAA"].quantity = 2

RECURSIVE SharesFlow(_, _, _)
\* the buys' quantities minus the sells' quantities of account a in symbol s
SharesFlow(log, a, s) ==
    IF log = <<>> THEN 0
    ELSE LET e == log[Len(log)]
             rest == SharesFlow(SubSeq(log, 1, Len(log) - 1), a, s)
         IN  IF e.user # a \/ e.symbol # s THEN rest
             ELSE IF e.type = "buy" THEN rest + e.quantity
             ELSE rest - e.quantity

\* C27: the balance update, the position update and the record of every
\* request that was answered success are in the persisted state and stay
\* there: when no request is in flight the committed tables hold exactly
\* what the requests answered success have written.
C27_SuccessIsDurable ==
    Quiescent =>
        /\ saved = Tables
        /\ \A a \in Accounts :
              balance[a] = initialBalance + CashFlow(accepted, a)
        /\ \A a \in Accounts, s \in Symbols :
              portfolio[a][s].quantity = SharesFlow(accepted, a, s)
        /\ Len(transactions) = Len(accepted)
        /\ \A i \in 1..Len(accepted) :
              /\ i <= Len(transactions)
              /\ transactions[i].user_id = accepted[i].user
              /\ transactions[i].symbol = accepted[i].symbol
              /\ transactions[i].price = accepted[i].price
              /\ transactions[i].type = accepted[i].type

\* the records of account a, in the order of the log
RecordsOf(log, a) == SelectSeq(log, LAMBDA e : e.user_id = a)

\* C28: a step of a trade request of one account changes neither the cash
\* nor the positions nor the records of another account.
C28_OtherAccountsUntouched ==
    [][\A r \in Slots :
          (InFlight(r) /\ req'[r] # req[r]) =>
              \A a \in Accounts \ {req[r].user} :
                  /\ balance'[a] = balance[a]
                  /\ portfolio'[a] = portfolio[a]
                  /\ RecordsOf(transactions', a) = RecordsOf(transactions, a)]_vars

\* the log's records as entries with the fields of a request
Records ==
    [i \in 1..Len(transactions) |->
        [user |-> transactions[i].user_id, symbol |-> transactions[i].symbol,
         quantity |-> transactions[i].quantity, price |-> transactions[i].price,
         type |-> transactions[i].type]]

\* C29: when no request is in flight, every position's quantity is the sum
\* of the account's buy records for the symbol minus the sum of its sell
\* records, and the cash is the initial balance minus price*quantity over
\* the buy records plus price*quantity over the sell records.
C29_TablesMatchLog ==
    Quiescent =>
        /\ \A a \in Accounts, s \in Symbols :
              portfolio[a][s].quantity = SharesFlow(Records, a, s)
        /\ \A a \in Accounts :
              balance[a] = initialBalance + CashFlow(Records, a)

\* C30: for every accepted buy and every accepted sell, the select-then-
\* update updatePortfolio, called as the trade route calls it, leaves the
\* position quantity and average cost the upsert leaves and records the
\* same quantity, price and side.
C30_VariantsAgree ==
    (req[1].pc = "done" /\ req[1].res = "success") =>
        LET u == req[1].user
            s == req[1].symbol
            q == SignedQuantity(req[1].type, req[1].quantity)
            row == pre[1].portfolio[u][s]
        IN  /\ ~SelectThenUpdateFails(row, req[1].type)
            /\ SelectThenUpdateRow(row, q, req[1].currentPrice, req[1].type)
                  = portfolio[u][s]
            /\ TransactionRow(u, s, SelectThenUpdateRecorded(q),
                              req[1].currentPrice, req[1].type,
                              transactions[Len(transactions)].date)
                  = transactions[Len(transactions)]

====
